---- MODULE Spec2Model ----
(***************************************************************************)
(* A model of frontera's Kafka message bus                                 *)
(* (frontera/contrib/messagebus/kafkabus.py): the stream consumer, the     *)
(* keyed producer, the spider-log and spider-feed facades and the          *)
(* lag-based admission check of the spider feed.                           *)
(*                                                                         *)
(* The broker is modelled at the interface the code uses: a topic is a     *)
(* set of partitions, each an append-only sequence of messages; a consumer *)
(* group has one committed offset per partition.  Every group starts with  *)
(* a checkpoint at offset 0 of every partition.                            *)
(***************************************************************************)
EXTENDS Integers, Sequences, FiniteSets, TLC

(***************************************************************************)
(* Bounds of the model.                                                    *)
(***************************************************************************)
MaxPartitions == 2      \* partition counts range over 1..MaxPartitions
MaxLog == 2             \* messages written to one topic
MaxCount == 2           \* largest count passed to get_messages
NumConsumers == 2       \* Consumer objects constructed
NumProducers == 2       \* KeyedProducer objects constructed
MaxNextRequests == 2    \* settings.MAX_NEXT_REQUESTS, the admission threshold
MaxSends == 2           \* messages handed to KeyedProducer.send
MaxMessages == 2        \* messages in one send call

Retries == 5            \* KafkaProducer(retries=5)

Partitions == 0 .. (MaxPartitions - 1)
Consumers == 1 .. NumConsumers
Producers == 1 .. NumProducers
None == -1              \* Python's None as a partition_id; an unresolved position
Topics == {"log", "feed", "scoring"}  \* topic_done, topic_todo, topic_scoring
Groups == {"dbw", "sw", "feed"}       \* spiderlog_dbw_group, spiderlog_sw_group, spider_feed_group
TypeForms == {"b'sw'", "b'db'", "'sw'", "'db'"}   \* the type argument, as bytes or as text

VARIABLES
    actualN,      \* actualN[t]: the partition count of topic t at the broker
    configN,      \* configN[t]: SPIDER_LOG_PARTITIONS / SPIDER_FEED_PARTITIONS
    log,          \* log[t][p]: the messages of partition p of topic t, in offset order
    committed,    \* committed[g][p]: group g's committed offset on partition p
    cons,         \* cons[c]: the Consumer object c
    delivered,    \* delivered[g][p]: offsets of p that get_messages has returned to group g
    last,         \* the latest call made on the bus and what it returned or raised
    lags,         \* the lag snapshot of the spider feed's offsets fetcher
    fetchErr,     \* whether the latest refresh of the offsets fetcher failed
    omitted,      \* the partitions the latest available_partitions() call left out
    hostPart,     \* QUEUE_HOSTNAME_PARTITIONING
    prods,        \* prods[r]: the KeyedProducer object r
    nsent         \* the messages handed to KeyedProducer.send so far

vars == <<actualN, configN, log, committed, cons, delivered, last, lags, fetchErr, omitted,
          hostPart, prods, nsent>>

cfg == <<actualN, configN, hostPart>>
producerSide == <<prods, nsent>>
fetcher == <<lags, fetchErr, omitted>>

Range(s) == {s[i] : i \in 1 .. Len(s)}
Min(S) == CHOOSE x \in S : \A y \in S : x <= y
Max2(a, b) == IF a >= b THEN a ELSE b

RECURSIVE SumLen(_, _)
SumLen(f, S) == IF S = {} THEN 0 ELSE LET p == Min(S) IN Len(f[p]) + SumLen(f, S \ {p})

\* the number of messages in topic t
Written(t) == SumLen(log[t], Partitions)

(***************************************************************************)
(* KafkaConsumer.partitions_for_topic(topic): the partitions the cluster   *)
(* metadata lists for the topic.                                           *)
(***************************************************************************)
PartitionsForTopic(t) == 0 .. (actualN[t] - 1)

(***************************************************************************)
(* A Consumer object that has not been constructed.  Of a constructed one: *)
(* handed (the facade returned it to its caller), joined (the client has   *)
(* its partitions: at once with assign(), at the first poll with           *)
(* subscribe()), owned (the partitions it fetches from), pos (the client's *)
(* position per partition, None until resolved).                           *)
(***************************************************************************)
NoConsumer ==
    [st |-> "none", handed |-> FALSE, topic |-> "-", group |-> "-",
     pid |-> None, joined |-> FALSE, owned |-> {},
     pos |-> [p \in Partitions |-> None]]

\* a call: the operation, the consumer it was made on, the messages returned,
\* the error raised, and for get_messages: stopped (its loop ended on
\* StopIteration) and afterStop (the call before it was a get_messages on the
\* same consumer that ended on StopIteration); for available_partitions:
\* afterFail (the offsets fetcher's latest refresh had failed)
NoCall == [op |-> "none", c |-> 0, result |-> <<>>, stopped |-> FALSE,
           afterStop |-> FALSE, afterFail |-> FALSE, err |-> ""]

(***************************************************************************)
(* Consumer.__init__: a KafkaConsumer for the group, then either           *)
(* assign([TopicPartition(topic, partition_id)]) or subscribe([topic]).    *)
(* The constructor passes neither enable_auto_commit nor                   *)
(* auto_offset_reset, so the client's own settings are in force.  No       *)
(* position is fetched here: the client resolves a partition's position    *)
(* from the group's committed offset when it first polls.                  *)
(***************************************************************************)
ConsumerInitTruthy(t, group, partition_id) ==
    [NoConsumer EXCEPT
        !.st = "open", !.topic = t, !.group = group, !.pid = partition_id,
        !.joined = (partition_id \notin {None, 0}),
        !.owned = IF partition_id \notin {None, 0} THEN {partition_id} ELSE {}]

ConsumerInit(t, group, partition_id) ==
    [NoConsumer EXCEPT
        !.st = "open", !.topic = t, !.group = group, !.pid = partition_id,
        !.joined = (partition_id # None),
        !.owned = IF partition_id # None THEN {partition_id} ELSE {}]

\* Consumer objects are numbered in the order in which they are constructed
Unbuilt(c) == cons[c].st = "none" /\ \A d \in Consumers : d < c => cons[d].st # "none"

\* self._partitions, lines 71-77
ConsumerPartitions(c) ==
    IF cons[c].pid # None THEN {cons[c].pid} ELSE PartitionsForTopic(cons[c].topic)

\* whether the consumer was assigned one partition or subscribed to the topic
Mode(c) == IF cons[c].pid # None THEN "assign" ELSE "subscribe"

(***************************************************************************)
(* SpiderLogStream.consumer, line 196: the group for a type argument.      *)
(* The comparison is with the bytes literal b'sw'.                         *)
(***************************************************************************)
SpiderLogGroupAlwaysDb(type) == "dbw"

SpiderLogGroup(type) == IF type = "b'sw'" THEN "sw" ELSE "dbw"

(***************************************************************************)
(* The assert of SpiderLogStream.consumer / SpiderFeedStream.consumer.     *)
(***************************************************************************)
PartitionCountMatches(t) == Cardinality(PartitionsForTopic(t)) = configN[t]

(***************************************************************************)
(* SpiderLogStream.consumer(partition_id, type): the Consumer is built     *)
(* (and assigned or subscribed) first; the assert runs afterwards, and on  *)
(* failure raises AssertionError, so that c is not returned.  Nothing      *)
(* closes c on that path.                                                  *)
(***************************************************************************)
SpiderLogConsumer(c, partition_id, type) ==
    /\ Unbuilt(c)
    /\ cons' = [cons EXCEPT ![c] =
                  [ConsumerInit("log", SpiderLogGroup(type), partition_id)
                     EXCEPT !.handed = PartitionCountMatches("log")]]
    /\ last' = [NoCall EXCEPT !.op = "consumer", !.c = c,
                  !.err = IF PartitionCountMatches("log") THEN "" ELSE "AssertionError"]
    /\ UNCHANGED <<cfg, log, committed, delivered, fetcher, producerSide>>

(***************************************************************************)
(* SpiderFeedStream.consumer(partition_id): as above, under the one        *)
(* spider-feed group.                                                      *)
(***************************************************************************)
SpiderFeedConsumer(c, partition_id) ==
    /\ Unbuilt(c)
    /\ cons' = [cons EXCEPT ![c] =
                  [ConsumerInit("feed", "feed", partition_id)
                     EXCEPT !.handed = PartitionCountMatches("feed")]]
    /\ last' = [NoCall EXCEPT !.op = "consumer", !.c = c,
                  !.err = IF PartitionCountMatches("feed") THEN "" ELSE "AssertionError"]
    /\ UNCHANGED <<cfg, log, committed, delivered, fetcher, producerSide>>

(***************************************************************************)
(* Consumer.get_messages, lines 80-88.                                     *)
(***************************************************************************)
LoopContinuesOffByOne(count) == count >= 0

LoopContinues(count) == count > 0

\* the owned partitions with a message at the consumer's position
Fetchable(t, owned, pos) ==
    {p \in owned \cap PartitionsForTopic(t) : pos[p] # None /\ pos[p] < Len(log[t][p])}

\* the loop of get_messages: next(self._consumer) returns the next message of
\* an owned partition, or raises StopIteration when none arrives within
\* consumer_timeout_ms; pref is the partition the fetcher serves first.
\* A message is identified by its partition and offset.
RECURSIVE GetLoop(_, _, _, _, _, _)
GetLoop(count, t, owned, pos, pref, result) ==
    IF ~LoopContinues(count) THEN result
    ELSE LET av == Fetchable(t, owned, pos) IN
         IF av = {} THEN result
         ELSE LET p == IF pref \in av THEN pref ELSE Min(av)
                  m == [partition |-> p, offset |-> pos[p]]
              IN GetLoop(count - 1, t, owned, [pos EXCEPT ![p] = @ + 1], pref, Append(result, m))

\* the positions after the first k messages of result were handed out
PosAfter(pos0, result, k) ==
    [p \in Partitions |->
        IF pos0[p] = None THEN None
        ELSE pos0[p] + Cardinality({i \in 1 .. k : result[i].partition = p})]

\* Consumer.__init__, line 59: the group the KafkaConsumer is bound to
GroupId(group) == group

\* commit the positions pos of the owned partitions under the consumer's group
CommitPositions(g, owned, pos) ==
    [committed EXCEPT ![GroupId(g)] =
        [p \in Partitions |-> IF p \in owned /\ pos[p] # None THEN pos[p] ELSE @[p]]]

\* partitions held by the other live subscribed members of c's group
HeldByGroup(c) ==
    UNION {cons[d].owned : d \in {e \in Consumers \ {c} :
              /\ cons[e].st = "open" /\ Mode(e) = "subscribe"
              /\ cons[e].group = cons[c].group /\ cons[e].topic = cons[c].topic}}

\* what the group coordinator may give c when it joins: some of the partitions
\* no other member holds (members in other processes hold the rest)
Shares(c) ==
    LET free == PartitionsForTopic(cons[c].topic) \ HeldByGroup(c)
    IN IF free = {} THEN {{}} ELSE (SUBSET free) \ {{}}

(***************************************************************************)
(* get_messages(timeout, count) as one step.  The first next() makes the   *)
(* client poll: a subscribed consumer joins its group and is given a       *)
(* share of the partitions, and unresolved positions are set from the      *)
(* group's committed offsets.  As enable_auto_commit is left at the        *)
(* client's setting (on), a poll made once auto_commit_interval_ms has     *)
(* passed commits the positions reached so far: ac is the next() call      *)
(* (0-based) at which that happens, None if the interval does not pass.    *)
(***************************************************************************)
GetMessages(c, count) ==
    LET k == cons[c]
        polls == LoopContinues(count)
        joins == polls /\ ~k.joined
    IN /\ k.st = "open" /\ k.handed
       /\ \E share \in (IF joins THEN Shares(c) ELSE {k.owned}) :
          LET owned == share
              pos0 == IF polls
                      THEN [p \in Partitions |->
                              IF p \in owned /\ k.pos[p] = None
                              THEN committed[GroupId(k.group)][p] ELSE k.pos[p]]
                      ELSE k.pos
          IN \E pref \in (IF Cardinality(Fetchable(k.topic, owned, pos0)) > 1 THEN owned ELSE {0}) :
             LET result == GetLoop(count, k.topic, owned, pos0, pref, <<>>)
                 n == Len(result)
                 stops == polls /\ n < count
                 calls == IF stops THEN n + 1 ELSE n
             IN \E ac \in {None} \cup (0 .. (calls - 1)) :
                /\ cons' = [cons EXCEPT ![c] =
                              [k EXCEPT !.owned = owned, !.joined = (k.joined \/ polls),
                                        !.pos = PosAfter(pos0, result, n)]]
                /\ committed' = IF ac = None THEN committed
                                ELSE CommitPositions(k.group, owned, PosAfter(pos0, result, ac))
                /\ delivered' = [delivered EXCEPT ![k.group] =
                                   [p \in Partitions |->
                                      @[p] \cup {result[i].offset :
                                                   i \in {j \in 1 .. n : result[j].partition = p}}]]
                /\ last' = [NoCall EXCEPT !.op = "get_messages", !.c = c,
                                          !.result = result, !.stopped = stops,
                                          !.afterStop = (last.c = c /\ last.stopped)]
       /\ UNCHANGED <<cfg, log, fetcher, producerSide>>

(***************************************************************************)
(* Consumer.get_offset(partition_id), lines 90-94: the loop looks for the  *)
(* partition in self._partitions and raises KeyError when it is not there; *)
(* for one that is there it returns self._consumer.position(tp).  The      *)
(* client's position() refuses a partition that is not assigned to the     *)
(* consumer at the time (AssertionError), and for an assigned one returns  *)
(* the offset of the next message to be fetched, resolving it from the     *)
(* group's committed offset first if the client has none yet.              *)
(***************************************************************************)
IsAssignedAlways(owned, p) == TRUE

IsAssigned(owned, p) == p \in owned

GetOffset(c, partition_id) ==
    LET k == cons[c]
        found == partition_id \in ConsumerPartitions(c)
        assigned == found /\ IsAssigned(k.owned, partition_id)
        position == IF k.pos[partition_id] = None
                    THEN committed[GroupId(k.group)][partition_id]
                    ELSE k.pos[partition_id]
    IN /\ k.st = "open" /\ k.handed
       /\ IF assigned
          THEN /\ cons' = [cons EXCEPT ![c].pos[partition_id] = position]
               /\ last' = [NoCall EXCEPT !.op = "get_offset", !.c = c,
                              !.result = <<[partition |-> partition_id, offset |-> position]>>]
          ELSE /\ last' = [NoCall EXCEPT !.op = "get_offset", !.c = c,
                              !.err = IF found THEN "AssertionError" ELSE "KeyError"]
               /\ UNCHANGED cons
       /\ UNCHANGED <<cfg, log, committed, delivered, fetcher, producerSide>>

(***************************************************************************)
(* Consumer.close, lines 96-98: commit() then close(), with no guard       *)
(* against a consumer that is closed already.  commit() commits the        *)
(* positions of the owned partitions; when it raises (commitOk = FALSE),   *)
(* close() is not reached.  On a closed consumer commit() finds the        *)
(* client's connections gone and raises.                                   *)
(***************************************************************************)
Close(c, commitOk) ==
    LET k == cons[c]
        err == IF k.st = "closed" THEN "closed-consumer"
               ELSE IF commitOk THEN "" ELSE "commit-failed"
    IN /\ k.st \in {"open", "closed"} /\ k.handed
       /\ committed' = IF err = "" THEN CommitPositions(k.group, k.owned, k.pos)
                       ELSE committed
       /\ cons' = [cons EXCEPT ![c] =
                     [k EXCEPT !.st = IF err = "" THEN "closed" ELSE k.st,
                               !.owned = IF err = "" THEN {} ELSE k.owned]]
       /\ last' = [NoCall EXCEPT !.op = "close", !.c = c, !.err = err]
       /\ UNCHANGED <<cfg, log, delivered, fetcher, producerSide>>

(***************************************************************************)
(* The process that owns consumer c dies: nothing is committed.            *)
(***************************************************************************)
Crash(c) ==
    /\ cons[c].st = "open" /\ cons[c].handed
    /\ cons' = [cons EXCEPT ![c].st = "crashed", ![c].owned = {}]
    /\ UNCHANGED <<cfg, log, committed, delivered, last, fetcher, producerSide>>

(***************************************************************************)
(* The transport appends a message some producer sent to partition p.      *)
(***************************************************************************)
Arrive(t, p) ==
    /\ p \in PartitionsForTopic(t)
    /\ Written(t) < MaxLog
    /\ log' = [log EXCEPT ![t][p] = Append(@, [key |-> "-", seq |-> 0, prod |-> 0])]
    /\ UNCHANGED <<cfg, committed, cons, delivered, last, fetcher, producerSide>>

(***************************************************************************)
(* The lag of the spider-feed group on partition p: the partition's latest *)
(* written offset minus the group's committed offset.                      *)
(***************************************************************************)
CurrentLag(p) == Len(log["feed"][p]) - committed["feed"][p]

(***************************************************************************)
(* The offsets fetcher of the spider feed (OffsetsFetcherAsync): a         *)
(* background refresh stores the lag of every partition in a snapshot      *)
(* that get() returns.                                                     *)
(***************************************************************************)
RefreshLags ==
    /\ lags' = [p \in PartitionsForTopic("feed") |-> CurrentLag(p)]
    /\ fetchErr' = FALSE
    /\ UNCHANGED <<cfg, log, committed, cons, delivered, last, omitted, producerSide>>

\* a refresh fails: the loop keeps the snapshot it has and tries again at its next tick
RefreshLagsFails ==
    /\ fetchErr' = TRUE
    /\ UNCHANGED <<cfg, log, committed, cons, delivered, last, lags, omitted, producerSide>>

OffsetsFetcherGet == lags

(***************************************************************************)
(* SpiderFeedStream.available_partitions, lines 239-245.                   *)
(***************************************************************************)
BelowThresholdInclusive(lag) == lag <= MaxNextRequests

BelowThresholdReversed(lag) == lag > MaxNextRequests

BelowThreshold(lag) == lag < MaxNextRequests

\* the loop over six.iteritems(lags), the partitions taken in ascending order
RECURSIVE AvailLoop(_, _, _)
AvailLoop(lagmap, todo, partitions) ==
    IF todo = {} THEN partitions
    ELSE LET p == Min(todo)
         IN AvailLoop(lagmap, todo \ {p},
                      IF BelowThreshold(lagmap[p]) THEN Append(partitions, p) ELSE partitions)

AvailablePartitionsIfFresh ==
    IF fetchErr THEN <<>> ELSE AvailLoop(OffsetsFetcherGet, DOMAIN OffsetsFetcherGet, <<>>)

AvailablePartitions == AvailLoop(OffsetsFetcherGet, DOMAIN OffsetsFetcherGet, <<>>)

AvailablePartitionsCall ==
    /\ last' = [NoCall EXCEPT !.op = "available_partitions", !.result = AvailablePartitions,
                              !.afterFail = fetchErr]
    /\ omitted' = PartitionsForTopic("feed") \ Range(AvailablePartitions)
    /\ UNCHANGED <<cfg, log, committed, cons, delivered, lags, fetchErr, producerSide>>

(***************************************************************************)
(* Routing keys: a URL fingerprint, written host/path so that the host     *)
(* portion can be told.  The partitioners are pure functions of the key    *)
(* and of the partition count N they were constructed with: the            *)
(* fingerprint variant hashes the whole key, the host-name variant hashes  *)
(* the host portion only, and the index is the hash modulo N.              *)
(***************************************************************************)
Keys == {"a/x", "a/y", "b/x"}

Host(key) == CASE key = "a/x" -> "a" [] key = "a/y" -> "a" [] key = "b/x" -> "b"

FingerprintHash(key) == CASE key = "a/x" -> 2 [] key = "a/y" -> 1 [] key = "b/x" -> 3

HostHash(host) == CASE host = "a" -> 1 [] host = "b" -> 2

Hash(variant, key) ==
    IF variant = "hostname" THEN HostHash(Host(key)) ELSE FingerprintHash(key)

Select(variant, key, n) == Hash(variant, key) % n

(***************************************************************************)
(* KeyedProducer.  pending holds the messages handed to send and not yet   *)
(* acknowledged by the broker, in send order; each carries the partition   *)
(* the partitioner chose and the number of times its request has failed.   *)
(* lost counts the messages the client has given up; the error goes to the *)
(* future that send returned, which the producer classes discard.          *)
(***************************************************************************)
NoProducer ==
    [st |-> "none", topic |-> "-", variant |-> "-", n |-> 0, pending |-> <<>>, lost |-> 0]

KeyedProducerInit(t, variant, n) ==
    [st |-> "open", topic |-> t, variant |-> variant, n |-> n, pending |-> <<>>, lost |-> 0]

\* producers are numbered in the order of their construction
UnbuiltProducer(r) ==
    /\ prods[r].st = "none"
    /\ \A q \in Producers : q < r => prods[q].st # "none"

\* the partition count the facade constructs its partitioner with: self._partitions
PartitionerCountOfTopic(t) == actualN[t]

PartitionerCount(t) == configN[t]

\* SpiderLogStream.producer(): no check of the topic's partition count
SpiderLogProducer(r) ==
    /\ UnbuiltProducer(r)
    /\ prods' = [prods EXCEPT ![r] = KeyedProducerInit("log", "fingerprint", PartitionerCount("log"))]
    /\ last' = [NoCall EXCEPT !.op = "producer", !.c = r]
    /\ UNCHANGED <<cfg, log, committed, cons, delivered, fetcher, nsent>>

\* SpiderFeedStream.producer(): no check of the topic's partition count
SpiderFeedProducer(r) ==
    /\ UnbuiltProducer(r)
    /\ LET variant == IF hostPart THEN "hostname" ELSE "fingerprint"
       IN  prods' = [prods EXCEPT ![r] = KeyedProducerInit("feed", variant, PartitionerCount("feed"))]
    /\ last' = [NoCall EXCEPT !.op = "producer", !.c = r]
    /\ UNCHANGED <<cfg, log, committed, cons, delivered, fetcher, nsent>>

\* the messages of one send call, all with the call's key
Batch(r, key, part, nmsgs) ==
    [i \in 1 .. nmsgs |-> [key |-> key, seq |-> nsent + i, part |-> part, tries |-> 0]]

(***************************************************************************)
(* KeyedProducer.send(key, *messages): each message is handed to the       *)
(* client with the key; the client asks the partitioner for the partition  *)
(* and refuses a partition the topic does not have, which ends the call at *)
(* its first message.                                                      *)
(***************************************************************************)
KeyedSend(r, key, nmsgs) ==
    /\ prods[r].st = "open" /\ prods[r].variant # "unkeyed"
    /\ nsent + nmsgs <= MaxSends
    /\ LET k == prods[r]
           part == Select(k.variant, key, k.n)
       IN  IF part \in PartitionsForTopic(k.topic)
           THEN /\ prods' = [prods EXCEPT ![r].pending = @ \o Batch(r, key, part, nmsgs)]
                /\ nsent' = nsent + nmsgs
                /\ last' = [NoCall EXCEPT !.op = "send", !.c = r]
           ELSE /\ last' = [NoCall EXCEPT !.op = "send", !.c = r, !.err = "AssertionError"]
                /\ UNCHANGED <<prods, nsent>>
    /\ UNCHANGED <<cfg, log, committed, cons, delivered, fetcher>>

RemoveAt(s, i) == SubSeq(s, 1, i - 1) \o SubSeq(s, i + 1, Len(s))

(***************************************************************************)
(* The client keeps several requests in flight on a connection             *)
(* (max_in_flight_requests_per_connection is left at its default, above    *)
(* one).  A pending message is in flight when every earlier pending        *)
(* message for its partition has had a request fail and waits to be sent   *)
(* again.                                                                  *)
(***************************************************************************)
InFlight(r, i) ==
    LET q == prods[r].pending
    IN  \A j \in 1 .. (i - 1) : q[j].part = q[i].part => q[j].tries > 0

\* the broker appends the message and acknowledges it
Land(r, i) ==
    /\ prods[r].st = "open"
    /\ i \in 1 .. Len(prods[r].pending)
    /\ InFlight(r, i)
    /\ LET m == prods[r].pending[i]
       IN  log' = [log EXCEPT ![prods[r].topic][m.part] =
                       Append(@, [key |-> m.key, seq |-> m.seq, prod |-> r])]
    /\ prods' = [prods EXCEPT ![r].pending = RemoveAt(@, i)]
    /\ UNCHANGED <<cfg, committed, cons, delivered, last, fetcher, nsent>>

\* a request fails with a transient error: the message is sent again, up to
\* retries times, and is given up after that
Fail(r, i) ==
    /\ prods[r].st = "open"
    /\ i \in 1 .. Len(prods[r].pending)
    /\ InFlight(r, i)
    /\ LET m == prods[r].pending[i]
       IN  IF m.tries < Retries
           THEN prods' = [prods EXCEPT ![r].pending[i].tries = @ + 1]
           ELSE prods' = [prods EXCEPT ![r].pending = RemoveAt(@, i), ![r].lost = @ + 1]
    /\ UNCHANGED <<cfg, log, committed, cons, delivered, last, fetcher, nsent>>


(***************************************************************************)
(* SimpleProducer, the unkeyed producer of the scoring log.                *)
(* ScoringLogStream.producer() constructs it; it has no partitioner.       *)
(***************************************************************************)
SimpleProducerInit(t) ==
    [st |-> "open", topic |-> t, variant |-> "unkeyed", n |-> 0, pending |-> <<>>, lost |-> 0]

ScoringLogProducer(r) ==
    /\ UnbuiltProducer(r)
    /\ prods' = [prods EXCEPT ![r] = SimpleProducerInit("scoring")]
    /\ last' = [NoCall EXCEPT !.op = "producer", !.c = r]
    /\ UNCHANGED <<cfg, log, committed, cons, delivered, fetcher, nsent>>

(***************************************************************************)
(* SimpleProducer.send(key, *messages): the key is not passed on, and the  *)
(* client picks a partition of the topic for each message: parts[i] for    *)
(* the i-th.                                                               *)
(***************************************************************************)
SimpleSend(r, parts) ==
    /\ prods[r].st = "open" /\ prods[r].variant = "unkeyed"
    /\ nsent + Len(parts) <= MaxSends
    /\ Range(parts) \subseteq PartitionsForTopic(prods[r].topic)
    /\ prods' = [prods EXCEPT ![r].pending = @ \o
                    [i \in 1 .. Len(parts) |->
                        [key |-> "-", seq |-> nsent + i, part |-> parts[i], tries |-> 0]]]
    /\ nsent' = nsent + Len(parts)
    /\ last' = [NoCall EXCEPT !.op = "send", !.c = r]
    /\ UNCHANGED <<cfg, log, committed, cons, delivered, fetcher>>

(***************************************************************************)
(* SimpleProducer.flush / KeyedProducer.flush: self._producer.flush() with *)
(* no timeout.  The call waits until every buffered message is done, which *)
(* a message is when the broker has acknowledged it or when the client has *)
(* given it up, and then returns None; it raises nothing for a message     *)
(* that was given up.                                                      *)
(***************************************************************************)
Flush(r) ==
    /\ prods[r].st = "open"
    /\ prods[r].pending = <<>>
    /\ last' = [NoCall EXCEPT !.op = "flush", !.c = r]
    /\ UNCHANGED <<cfg, log, committed, cons, delivered, fetcher, producerSide>>

(***************************************************************************)
(* SimpleProducer.close: self._producer.close(), which waits for the       *)
(* buffered messages as flush does and releases the connections.           *)
(* KeyedProducer defines no close.                                         *)
(***************************************************************************)
SimpleClose(r) ==
    /\ prods[r].st = "open" /\ prods[r].variant = "unkeyed"
    /\ prods[r].pending = <<>>
    /\ prods' = [prods EXCEPT ![r].st = "closed"]
    /\ last' = [NoCall EXCEPT !.op = "producer_close", !.c = r]
    /\ UNCHANGED <<cfg, log, committed, cons, delivered, fetcher, nsent>>

InitAny ==
    /\ actualN \in {f \in [Topics -> 1 .. MaxPartitions] : f["scoring"] = 1}
    /\ configN \in {f \in [Topics -> 1 .. MaxPartitions] : f["scoring"] = 1}
    /\ hostPart \in BOOLEAN
    /\ log = [t \in Topics |-> [p \in Partitions |-> <<>>]]
    /\ committed = [g \in Groups |-> [p \in Partitions |-> 0]]
    /\ cons = [c \in Consumers |-> NoConsumer]
    /\ delivered = [g \in Groups |-> [p \in Partitions |-> {}]]
    /\ last = NoCall
    /\ lags = [p \in PartitionsForTopic("feed") |-> 0]
    /\ fetchErr = FALSE
    /\ omitted = {}
    /\ prods = [r \in Producers |-> NoProducer]
    /\ nsent = 0

\* the spider log alone: the spider feed has one partition, as configured
Init == InitAny /\ actualN["feed"] = 1 /\ configN["feed"] = 1 /\ ~hostPart

\* the spider feed alone
InitFeed == InitAny /\ actualN["log"] = 1 /\ configN["log"] = 1 /\ ~hostPart

CountArgs == (0 - 1) .. MaxCount
LogPartitionIds == {None} \cup (0 .. (configN["log"] - 1))
FeedPartitionIds == {None} \cup (0 .. (configN["feed"] - 1))

\* the workers before c have stopped (closed or crashed) or never got a consumer
PredecessorsGone(c) ==
    \A d \in Consumers : d < c => cons[d].st \in {"closed", "crashed"} \/ ~cons[d].handed

(***************************************************************************)
(* Spec: spider-log workers that follow one another: a worker opens its    *)
(* consumer once the worker before it has closed its own or has crashed.   *)
(***************************************************************************)
Next ==
    \/ \E c \in Consumers, type \in {"b'sw'", "b'db'"}, pid \in LogPartitionIds :
          PredecessorsGone(c) /\ SpiderLogConsumer(c, pid, type)
    \/ \E c \in Consumers, count \in CountArgs : GetMessages(c, count)
    \/ \E c \in Consumers : Close(c, TRUE)
    \/ \E c \in Consumers : Crash(c)
    \/ \E p \in Partitions : Arrive("log", p)

Spec == Init /\ [][Next]_vars

(***************************************************************************)
(* SpecFanout: a DB-writer consumer (1) and a strategy-worker consumer (2) *)
(* of the spider log, live at the same time.                               *)
(***************************************************************************)
FanoutNext ==
    \/ \E pid \in LogPartitionIds : SpiderLogConsumer(1, pid, "b'db'")
    \/ \E pid \in LogPartitionIds : SpiderLogConsumer(2, pid, "b'sw'")
    \/ \E c \in {1, 2}, count \in CountArgs : GetMessages(c, count)
    \/ \E c \in {1, 2} : Close(c, TRUE)
    \/ \E c \in {1, 2} : Crash(c)
    \/ \E p \in Partitions : Arrive("log", p)

SpecFanout == Init /\ [][FanoutNext]_vars

(***************************************************************************)
(* Workers of the spider log that also ask for offsets, and whose final    *)
(* commit may fail.                                                        *)
(***************************************************************************)
OffsetArgs == 0 .. MaxPartitions

WorkerNext ==
    \/ \E c \in Consumers, type \in {"b'sw'", "b'db'"}, pid \in LogPartitionIds :
          PredecessorsGone(c) /\ SpiderLogConsumer(c, pid, type)
    \/ \E c \in Consumers, count \in CountArgs : GetMessages(c, count)
    \/ \E c \in Consumers, p \in OffsetArgs : GetOffset(c, p)
    \/ \E c \in Consumers, commitOk \in BOOLEAN : Close(c, commitOk)
    \/ \E p \in Partitions : Arrive("log", p)

SpecWorker == Init /\ [][WorkerNext]_vars


(***************************************************************************)
(* SpecOpen: the consumer() calls of both facades, with every form of the  *)
(* type argument, on topics whose partition count may differ from the      *)
(* configured one.                                                         *)
(***************************************************************************)
OpenNext ==
    \/ \E c \in Consumers, type \in TypeForms, pid \in LogPartitionIds :
          SpiderLogConsumer(c, pid, type)
    \/ \E c \in Consumers, pid \in FeedPartitionIds : SpiderFeedConsumer(c, pid)
    \/ \E c \in Consumers : Close(c, TRUE)
    \/ \E c \in Consumers : Crash(c)

SpecOpen == InitAny /\ [][OpenNext]_vars

(***************************************************************************)
(* SpecFeed: the spider feed: crawler workers that follow one another,     *)
(* the messages arriving for them, the lag refresh and the admission       *)
(* check.                                                                  *)
(***************************************************************************)
FeedNext ==
    \/ \E c \in Consumers, pid \in FeedPartitionIds :
          PredecessorsGone(c) /\ SpiderFeedConsumer(c, pid)
    \/ \E c \in Consumers, count \in CountArgs : GetMessages(c, count)
    \/ \E c \in Consumers : Close(c, TRUE)
    \/ \E p \in Partitions : Arrive("feed", p)
    \/ RefreshLags
    \/ RefreshLagsFails
    \/ AvailablePartitionsCall

SpecFeed == InitFeed /\ [][FeedNext]_vars

(***************************************************************************)
(* The producers of both facades, on any configuration.                    *)
(***************************************************************************)
ProducerNext ==
    \/ \E r \in Producers : SpiderLogProducer(r)
    \/ \E r \in Producers : SpiderFeedProducer(r)
    \/ \E r \in Producers, key \in Keys, nmsgs \in 1 .. MaxMessages : KeyedSend(r, key, nmsgs)
    \/ \E r \in Producers, i \in 1 .. MaxSends : Land(r, i)
    \/ \E r \in Producers, i \in 1 .. MaxSends : Fail(r, i)

SpecProducer == InitAny /\ [][ProducerNext]_vars

(***************************************************************************)
(* Producers that send, flush and close, on topics whose partition counts  *)
(* are as configured.                                                      *)
(***************************************************************************)
InitDrain == InitAny /\ actualN = configN /\ actualN["feed"] = 1 /\ ~hostPart

SendParts == UNION {[1 .. n -> Partitions] : n \in 1 .. MaxMessages}

DrainNext ==
    \/ \E r \in Producers : SpiderLogProducer(r)
    \/ \E r \in Producers : ScoringLogProducer(r)
    \/ \E r \in Producers, key \in Keys, nmsgs \in 1 .. MaxMessages :
          KeyedSend(r, key, nmsgs)
    \/ \E r \in Producers, parts \in SendParts : SimpleSend(r, parts)
    \/ \E r \in Producers, i \in 1 .. MaxSends : Land(r, i)
    \/ \E r \in Producers, i \in 1 .. MaxSends : Fail(r, i)
    \/ \E r \in Producers : Flush(r)
    \/ \E r \in Producers : SimpleClose(r)

SpecDrain == InitDrain /\ [][DrainNext]_vars



(***************************************************************************)
(* C1.  available_partitions() returns exactly the partitions whose lag in *)
(* the offsets fetcher's snapshot is below max_next_requests: a partition  *)
(* is left out if and only if that lag is >= the threshold.                *)
(***************************************************************************)
C1_SnapshotBelowThreshold ==
    [][AvailablePartitionsCall =>
          \A p \in PartitionsForTopic("feed") :
              (p \notin Range(last'.result)) <=> (lags[p] >= MaxNextRequests)]_vars

\* a call left out a partition whose lag equals the threshold and kept another
C1_Witness ==
    /\ last.op = "available_partitions"
    /\ \E p, q \in PartitionsForTopic("feed") :
          /\ p \in Range(last.result) /\ lags[p] < MaxNextRequests
          /\ q \notin Range(last.result) /\ lags[q] = MaxNextRequests

\* C1 as stated: in every state the call leaves p out if and only if p's
\* current lag (latest written offset minus committed offset) is >= the threshold
C1_CurrentLag ==
    \A p \in PartitionsForTopic("feed") :
        (p \notin Range(AvailablePartitions)) <=> (CurrentLag(p) >= MaxNextRequests)

(***************************************************************************)
(* C4.  A consumer() call on a facade whose configured partition count     *)
(* differs from the topic's leaves no open consumer behind and hands none  *)
(* to the caller; with equal counts the consumer is handed over.           *)
(***************************************************************************)
C4_MismatchLeavesNoConsumer ==
    \A c \in Consumers :
        cons[c].st # "none" =>
            IF PartitionCountMatches(cons[c].topic)
            THEN cons[c].handed
            ELSE ~cons[c].handed /\ cons[c].st # "open" /\ cons[c].owned = {}

(***************************************************************************)
(* C2.  A group's committed offset changes only in a step of               *)
(* Consumer.close(): no get_messages() call changes it.                    *)
(***************************************************************************)
C2_CommitOnlyOnClose ==
    [][committed' # committed => \E c \in Consumers : Close(c, TRUE)]_vars

(***************************************************************************)
(* C3.  At-least-once: when the only consumer there has been crashes after *)
(* get_messages() returned a batch, its group's committed offset (where a  *)
(* consumer started afterwards resumes) is at or before every message of   *)
(* that batch, so that the whole batch is delivered again.                 *)
(***************************************************************************)
C3_CrashRedelivers ==
    \A c \in Consumers :
        ( /\ cons[c].st = "crashed"
          /\ last.op = "get_messages" /\ last.c = c
          /\ \A d \in Consumers \ {c} : cons[d].st = "none" )
        => \A i \in 1 .. Len(last.result) :
              committed[cons[c].group][last.result[i].partition] <= last.result[i].offset

(***************************************************************************)
(* C8.  Commit-on-close idempotence: close() called on a consumer that an  *)
(* earlier close() has closed leaves the committed offsets as they are and *)
(* raises nothing.                                                         *)
(***************************************************************************)
C8_CloseTwice ==
    [][\A c \in Consumers :
          (cons[c].st = "closed" /\ Close(c, TRUE))
          => (committed' = committed /\ last'.err = "")]_vars

(***************************************************************************)
(* C10.  get_messages(timeout, count) returns at most count messages, none *)
(* when count <= 0, each of them a message that is in the log; and a call  *)
(* made after a call that ended for want of messages returns a message     *)
(* when one has arrived.                                                   *)
(***************************************************************************)
C10_BoundedRestartableBatch ==
    [][\A c \in Consumers, count \in CountArgs :
          GetMessages(c, count) =>
            /\ Len(last'.result) <= Max2(count, 0)
            /\ \A i \in 1 .. Len(last'.result) :
                  last'.result[i].offset < Len(log[cons[c].topic][last'.result[i].partition])
            /\ ( /\ last.op = "get_messages" /\ last.c = c /\ last.stopped
                 /\ count > 0
                 /\ Fetchable(cons[c].topic, cons[c].owned, cons[c].pos) # {} )
               => last'.result # <<>>]_vars

\* a call that followed one ended by StopIteration returned a message
C10_Witness ==
    last.op = "get_messages" /\ last.afterStop /\ Len(last.result) = MaxCount

(***************************************************************************)
(* C9.  Fan-out independence: the DB-writer consumer and the               *)
(* strategy-worker consumer of the spider log are bound to different       *)
(* groups; no group's committed offset runs ahead of what its consumers    *)
(* were delivered (nothing is skipped); and a step of a consumer of one    *)
(* group changes neither the log, nor the other group's committed offsets  *)
(* and deliveries, nor the other group's consumers.                        *)
(***************************************************************************)
ConsumerStep(c) == cons'[c] # cons[c] \/ (last' # last /\ last'.c = c)

C5_ProducerValidated ==
    \A r \in Producers : prods[r].st = "open" => PartitionCountMatches(prods[r].topic)

(***************************************************************************)
(* C6.  Messages sent with the same key through one producer are found in  *)
(* the key's partition in the order in which they were sent, retried       *)
(* sends included.  (A consumer reads a partition in offset order.)        *)
(***************************************************************************)
C6_PerKeyOrder ==
    \A t \in Topics, p \in Partitions :
        \A i, j \in 1 .. Len(log[t][p]) :
            (/\ i < j
             /\ log[t][p][i].prod # 0
             /\ log[t][p][i].prod = log[t][p][j].prod
             /\ log[t][p][i].key = log[t][p][j].key)
            => log[t][p][i].seq < log[t][p][j].seq

\* the partitions of topic t that hold, or are about to be sent, a message with the key
PartitionsOfKey(t, key) ==
    {p \in Partitions : \E i \in 1 .. Len(log[t][p]) : log[t][p][i].key = key}
    \cup {q \in Partitions :
            \E r \in Producers : \E i \in 1 .. Len(prods[r].pending) :
                /\ prods[r].topic = t
                /\ prods[r].pending[i].key = key
                /\ prods[r].pending[i].part = q}

(***************************************************************************)
(* C7.  For the configured partition count N of a facade, every message    *)
(* sent with key K through any producer of that facade lands in one and    *)
(* the same partition index, and that index is in [0, N).                  *)
(***************************************************************************)
C7_RoutingDeterminism ==
    \A t \in Topics, key \in Keys :
        /\ Cardinality(PartitionsOfKey(t, key)) <= 1
        /\ \A p \in PartitionsOfKey(t, key) : p >= 0 /\ p < configN[t]

\* two producer objects of the spider log have each landed a message with one key,
\* on a topic of more than one partition
C7_Witness ==
    /\ configN["log"] > 1
    /\ \E p \in Partitions : \E i, j \in 1 .. Len(log["log"][p]) :
          /\ log["log"][p][i].key = log["log"][p][j].key
          /\ log["log"][p][i].prod = 1
          /\ log["log"][p][j].prod = 2


(***************************************************************************)
(* C11.  Two live consumers of one group never hold the same partition at  *)
(* the same time, two spider-feed consumers opened with the same explicit  *)
(* partition_id included.                                                  *)
(***************************************************************************)
C11_MutualExclusion ==
    \A c, d \in Consumers :
        (/\ c # d
         /\ cons[c].st = "open" /\ cons[c].handed
         /\ cons[d].st = "open" /\ cons[d].handed
         /\ cons[c].topic = cons[d].topic
         /\ cons[c].group = cons[d].group)
        => cons[c].owned \cap cons[d].owned = {}

(***************************************************************************)
(* C18.  SpiderLogStream.consumer binds the consumer to the                *)
(* strategy-worker group when type is 'sw', passed as bytes or as text.    *)
(***************************************************************************)
C18_SwTypeBindsSwGroup ==
    [][\A c \in Consumers, pid \in LogPartitionIds, type \in {"b'sw'", "'sw'"} :
          SpiderLogConsumer(c, pid, type) => cons'[c].group = "sw"]_vars


(***************************************************************************)
(* C12.  After a producer's close() has returned without error, every      *)
(* message passed to its send() has been acknowledged: none was dropped.   *)
(***************************************************************************)
C12_CloseLosesNothing ==
    (last.op = "producer_close" /\ last.err = "") => prods[last.c].lost = 0

(***************************************************************************)
(* C17.  A flush() that has returned either found every buffered message   *)
(* acknowledged or failed with a produce-timeout error.                    *)
(***************************************************************************)
C17_FlushAckedOrTimeout ==
    last.op = "flush" => (last.err = "ProduceTimeout" \/ prods[last.c].lost = 0)


C14_BackpressureRelease ==
    [][\A p \in PartitionsForTopic("feed") :
          (/\ RefreshLags
           /\ p \in omitted /\ lags[p] >= MaxNextRequests
           /\ CurrentLag(p) < MaxNextRequests)
          => p \in Range(AvailablePartitions')]_vars

\* the latest call left p out; the group has committed since, a refresh has
\* run, and p is available again
C14_Witness ==
    \E p \in PartitionsForTopic("feed") :
        /\ p \in omitted
        /\ Len(log["feed"][p]) >= MaxNextRequests
        /\ committed["feed"][p] > 0
        /\ lags[p] = CurrentLag(p) /\ lags[p] < MaxNextRequests
        /\ p \in Range(AvailablePartitions)


(***************************************************************************)
(* C15.  get_offset(partition_id) fails and returns no offset for a        *)
(* partition that is not in the consumer's current assignment, and returns *)
(* an integer for one that is.                                             *)
(***************************************************************************)
C15_GetOffsetNotAssigned ==
    [][\A c \in Consumers, p \in OffsetArgs :
          GetOffset(c, p) =>
             IF p \in cons[c].owned
             THEN /\ last'.err = ""
                  /\ Len(last'.result) = 1 /\ last'.result[1].offset \in Nat
             ELSE last'.err # "" /\ last'.result = <<>>]_vars

\* a subscribed consumer that holds a part of the topic's partitions was
\* refused the offset of a partition of the topic it does not hold
C15_Witness ==
    /\ last.op = "get_offset" /\ last.err = "AssertionError"
    /\ cons[last.c].pid = None /\ cons[last.c].joined
    /\ cons[last.c].owned # {} /\ cons[last.c].owned # PartitionsForTopic("log")

(***************************************************************************)
(* C16.  When the final commit of Consumer.close() fails, the connection   *)
(* is released all the same and the committed offset is left as it was.    *)
(***************************************************************************)
C16_CommitFailureReleases ==
    (last.op = "close" /\ last.err = "commit-failed") => cons[last.c].st = "closed"

(***************************************************************************)
(* C20.  get_offset(p) for an assigned partition returns the committed     *)
(* offset of the consumer's group for p.                                   *)
(***************************************************************************)
C20_GetOffsetIsCommitted ==
    (last.op = "get_offset" /\ last.err = "") =>
        last.result[1].offset = committed[cons[last.c].group][last.result[1].partition]


(***************************************************************************)
(* C19.  A Consumer opened with an explicit partition_id p, 0 included, is *)
(* assigned exactly partition p and get_messages() returns messages of p   *)
(* only; a Consumer opened with partition_id None holds no partition until *)
(* it has joined its group, which then gives it partitions of the topic.   *)
(***************************************************************************)
C19_StaticAssignment ==
    /\ \A c \in Consumers :
          cons[c].st = "open" =>
             IF cons[c].pid # None
             THEN cons[c].owned = {cons[c].pid}
             ELSE /\ ~cons[c].joined => cons[c].owned = {}
                  /\ cons[c].owned \subseteq PartitionsForTopic(cons[c].topic)
    /\ (last.op = "get_messages" /\ cons[last.c].pid # None) =>
          \A i \in 1 .. Len(last.result) : last.result[i].partition = cons[last.c].pid

\* a consumer opened with partition_id 0 was returned a message while the
\* topic's other partition held messages too
C19_Witness ==
    /\ last.op = "get_messages" /\ last.result # <<>>
    /\ cons[last.c].pid = 0
    /\ actualN["log"] > 1 /\ Len(log["log"][1]) > 0


====
